---- MODULE Spec2Model ----
(***************************************************************************)
(* Warehouse inventory: the monthly ledger engine (inventoryFilter.ts)     *)
(* and the HTTP handlers of the database-backed server that read and       *)
(* mutate an item's movements.                                             *)
(*                                                                         *)
(* Strings are modelled as sequences of character codes, so that the       *)
(* JavaScript string operations the code relies on (split, padStart,       *)
(* template formatting of numbers, and < / === on strings) are computed    *)
(* the way the code computes them.                                         *)
(***************************************************************************)
EXTENDS Integers, Sequences, FiniteSets, TLC

VARIABLES
    \* ---- the store of the database-backed server ----
    today,          \* the server clock: [y, m, d] as numbers (new Date())
    items,          \* rows of table items: id -> [exists, quantity]
    movements,      \* rows of table movements in rowid order
    request,        \* the last write-off request received (req.params, req.body)
    response,       \* the last HTTP response sent
    \* ---- one ledger computation on a given item ----
    in_kind,        \* the list the item belongs to: spare_parts or mo
    in_item,        \* the item handed to the ledger engine
    in_month,       \* the target month handed to the ledger engine
    pc,             \* position of the ledger client
    out,            \* ledger of in_month
    outNext         \* ledger of the month after in_month

vars == <<today, items, movements, request, response, in_kind, in_item,
         in_month, pc, out, outNext>>

storeVars == <<today, items, movements, request, response>>
ledgerVars == <<in_kind, in_item, in_month, pc, out, outNext>>

----------------------------------------------------------------------------
(* Bounds of the model *)

\* longest movement list handed to the ledger engine, and largest number of
\* movements the clients record
MaxLen == 2
\* largest quantity of a movement recorded before a write-off request
MaxQty == 2
\* largest number of rows of table movements, write-offs included
MaxMovements == 3

----------------------------------------------------------------------------
(* Characters and JavaScript string primitives *)

DOT == 46
DASH == 45
ZERO == 48

Max(a, b) == IF a >= b THEN a ELSE b

\* the lists of at most n elements of S
SeqsUpTo(S, n) == UNION {[1..k -> S] : k \in 0..n}

\* String(n) / `${n}` for a non-negative integer
RECURSIVE NumToStr(_)
NumToStr(n) ==
    IF n < 10 THEN <<ZERO + n>>
    ELSE NumToStr(n \div 10) \o <<ZERO + (n % 10)>>

\* Number(s) for a string of decimal digits
RECURSIVE StrToNum(_)
StrToNum(s) ==
    IF Len(s) = 0 THEN 0
    ELSE 10 * StrToNum(SubSeq(s, 1, Len(s) - 1)) + (s[Len(s)] - ZERO)

\* s.padStart(len, c)
RECURSIVE PadStart(_, _, _)
PadStart(s, len, c) ==
    IF Len(s) >= len THEN s ELSE PadStart(<<c>> \o s, len, c)

\* s.indexOf(sep, i): 0 when sep does not occur at or after position i
RECURSIVE IndexOf(_, _, _)
IndexOf(s, sep, i) ==
    IF i > Len(s) THEN 0
    ELSE IF s[i] = sep THEN i ELSE IndexOf(s, sep, i + 1)

\* s.split(sep)
RECURSIVE Split(_, _)
Split(s, sep) ==
    LET i == IndexOf(s, sep, 1)
    IN  IF i = 0 THEN <<s>>
        ELSE <<SubSeq(s, 1, i - 1)>> \o Split(SubSeq(s, i + 1, Len(s)), sep)

\* a < b on strings: comparison by code units
StrLess(a, b) ==
    \/ \E i \in 1..Len(a) :
          /\ i <= Len(b)
          /\ \A j \in 1..(i - 1) : a[j] = b[j]
          /\ a[i] < b[i]
    \/ /\ Len(a) < Len(b)
       /\ \A j \in 1..Len(a) : a[j] = b[j]

StrLessEq(a, b) == a = b \/ StrLess(a, b)

\* /^\d{4}-\d{2}$/.test(month)
IsDigit(c) == c >= ZERO /\ c <= ZERO + 9
MonthRegex(month) ==
    /\ Len(month) = 7
    /\ \A i \in {1, 2, 3, 4, 6, 7} : IsDigit(month[i])
    /\ month[5] = DASH

----------------------------------------------------------------------------
(* Values the clients send *)

NULL == "null"
\* an absent string (undefined, or ''): falsy in `month || ...`, `date && ...`
NoStr == <<>>
\* an optional request field: <<>> when absent (undefined), <<v>> when present
Absent == <<>>
Some(S) == {<<v>> : v \in S}

\* toLocaleDateString('ru-RU', {day: '2-digit', month: '2-digit', year: 'numeric'})
FormatRuDate(d) ==
    PadStart(NumToStr(d.d), 2, ZERO) \o <<DOT>> \o
    PadStart(NumToStr(d.m), 2, ZERO) \o <<DOT>> \o NumToStr(d.y)

\* the value of an <input type="date">: YYYY-MM-DD
InputDateValue(y, m, d) ==
    PadStart(NumToStr(y), 4, ZERO) \o <<DASH>> \o
    PadStart(NumToStr(m), 2, ZERO) \o <<DASH>> \o PadStart(NumToStr(d), 2, ZERO)

\* MovementDialog: YYYY-MM-DD -> DD.MM.YYYY
toDisplayDate(inputDate) ==
    LET p == Split(inputDate, DASH)
    IN  p[3] \o <<DOT>> \o p[2] \o <<DOT>> \o p[1]

\* a DD.MM.YYYY date as the movement dialog submits it
ClientDate(y, m, d) == toDisplayDate(InputDateValue(y, m, d))

\* a YYYY-MM month as the month selector / URL gives it
MonthValue(y, m) ==
    PadStart(NumToStr(y), 4, ZERO) \o <<DASH>> \o PadStart(NumToStr(m), 2, ZERO)

\* getMonthOptions: the month i = 1 after (y, m), new Date(y, m + 1) formatted
NextMonth(month) ==
    LET p == Split(month, DASH)
        y == StrToNum(p[1])
        m == StrToNum(p[2])
        ny == IF m = 12 THEN y + 1 ELSE y
        nm == IF m = 12 THEN 1 ELSE m + 1
    IN  NumToStr(ny) \o <<DASH>> \o PadStart(NumToStr(nm), 2, ZERO)

----------------------------------------------------------------------------
(* inventoryFilter.ts *)

MovementTypes == {"incoming", "outgoing", "transfer", "write-off"}

getYearMonth(dateStr) ==
    LET p == Split(dateStr, DOT)
    IN  p[3] \o <<DASH>> \o PadStart(p[2], 2, ZERO)

isInMonth(dateStr, targetMonth) == getYearMonth(dateStr) = targetMonth

\* BalanceStep with the month test of the opening bucket made inclusive (<=)
BalanceStep_Inclusive(acc, movement, targetMonth) ==
    LET movementMonth == getYearMonth(movement.date)
        qty == movement.quantity
    IN  IF StrLessEq(movementMonth, targetMonth)
        THEN IF movement.type = "incoming"
             THEN [acc EXCEPT !.openingQty = @ + qty]
             ELSE IF movement.type = "outgoing"
                  THEN [acc EXCEPT !.openingQty = @ - qty]
                  ELSE acc
        ELSE acc

\* BalanceStep with the opening sum clamped at 0 while it is accumulated
BalanceStep_RunningClamp(acc, movement, targetMonth) ==
    LET movementMonth == getYearMonth(movement.date)
        qty == movement.quantity
    IN  IF StrLess(movementMonth, targetMonth)
        THEN IF movement.type = "incoming"
             THEN [acc EXCEPT !.openingQty = @ + qty]
             ELSE IF movement.type = "outgoing"
                  THEN [acc EXCEPT !.openingQty = Max(0, @ - qty)]
                  ELSE acc
        ELSE IF movementMonth = targetMonth
             THEN IF movement.type = "incoming"
                  THEN [acc EXCEPT !.incomingQty = @ + qty]
                  ELSE IF movement.type = "outgoing"
                       THEN [acc EXCEPT !.issuedQty = @ + qty]
                       ELSE acc
             ELSE acc

\* BalanceStep with a transfer of the target month counted as issued
BalanceStep_TransferIssued(acc, movement, targetMonth) ==
    LET movementMonth == getYearMonth(movement.date)
        qty == movement.quantity
    IN  IF StrLess(movementMonth, targetMonth)
        THEN IF movement.type = "incoming"
             THEN [acc EXCEPT !.openingQty = @ + qty]
             ELSE IF movement.type = "outgoing"
                  THEN [acc EXCEPT !.openingQty = @ - qty]
                  ELSE acc
        ELSE IF movementMonth = targetMonth
             THEN IF movement.type = "incoming"
                  THEN [acc EXCEPT !.incomingQty = @ + qty]
                  ELSE IF movement.type \in {"outgoing", "transfer"}
                       THEN [acc EXCEPT !.issuedQty = @ + qty]
                       ELSE acc
             ELSE acc

\* the body of the loop of calculateMonthlyBalance, for one movement
BalanceStep(acc, movement, targetMonth) ==
    LET movementMonth == getYearMonth(movement.date)
        qty == movement.quantity
    IN  IF StrLess(movementMonth, targetMonth)
        THEN IF movement.type = "incoming"
             THEN [acc EXCEPT !.openingQty = @ + qty]
             ELSE IF movement.type = "outgoing"
                  THEN [acc EXCEPT !.openingQty = @ - qty]
                  ELSE acc
        ELSE IF movementMonth = targetMonth
             THEN IF movement.type = "incoming"
                  THEN [acc EXCEPT !.incomingQty = @ + qty]
                  ELSE IF movement.type = "outgoing"
                       THEN [acc EXCEPT !.issuedQty = @ + qty]
                       ELSE acc
             ELSE acc

RECURSIVE BalanceLoop(_, _, _, _)
BalanceLoop(ms, targetMonth, i, acc) ==
    IF i > Len(ms) THEN acc
    ELSE BalanceLoop(ms, targetMonth, i + 1, BalanceStep(acc, ms[i], targetMonth))

\* BalanceResult without the clamp of the ending quantity
BalanceResult_NoEndingClamp(acc) ==
    [openingQty  |-> Max(0, acc.openingQty),
     incomingQty |-> acc.incomingQty,
     issuedQty   |-> acc.issuedQty,
     endingQty   |-> acc.openingQty + acc.incomingQty - acc.issuedQty]

\* BalanceResult with the ending quantity computed from the month alone
BalanceResult_NoOpening(acc) ==
    [openingQty  |-> Max(0, acc.openingQty),
     incomingQty |-> acc.incomingQty,
     issuedQty   |-> acc.issuedQty,
     endingQty   |-> Max(0, acc.incomingQty - acc.issuedQty)]

\* BalanceResult with the ending quantity computed from the clamped opening
BalanceResult_ClampedOpening(acc) ==
    [openingQty  |-> Max(0, acc.openingQty),
     incomingQty |-> acc.incomingQty,
     issuedQty   |-> acc.issuedQty,
     endingQty   |-> Max(0, Max(0, acc.openingQty) + acc.incomingQty
                               - acc.issuedQty)]

\* lines 80-87: the record returned from the accumulated sums
BalanceResult(acc) ==
    LET endingQty == acc.openingQty + acc.incomingQty - acc.issuedQty
    IN  [openingQty  |-> Max(0, acc.openingQty),
         incomingQty |-> acc.incomingQty,
         issuedQty   |-> acc.issuedQty,
         endingQty   |-> Max(0, endingQty)]

calculateMonthlyBalance(ms, targetMonth) ==
    BalanceResult(BalanceLoop(ms, targetMonth, 1,
                  [openingQty |-> 0, incomingQty |-> 0, issuedQty |-> 0]))

RECURSIVE CurrentStockLoop(_, _, _)
CurrentStockLoop(ms, i, stock) ==
    IF i > Len(ms) THEN stock
    ELSE CurrentStockLoop(ms, i + 1,
            IF ms[i].type = "incoming" THEN stock + ms[i].quantity
            ELSE IF ms[i].type = "outgoing" THEN stock - ms[i].quantity
                 ELSE stock)

calculateCurrentStock(ms) == Max(0, CurrentStockLoop(ms, 1, 0))

\* hasMovementInMonth that also counts the movements of later months
hasMovementInMonth_FromMonth(ms, targetMonth) ==
    \E i \in 1..Len(ms) : ~StrLess(getYearMonth(ms[i].date), targetMonth)

hasMovementInMonth(ms, targetMonth) ==
    \E i \in 1..Len(ms) : isInMonth(ms[i].date, targetMonth)

hasIncomingInMonth(ms, targetMonth) ==
    \E i \in 1..Len(ms) :
        ms[i].type = "incoming" /\ isInMonth(ms[i].date, targetMonth)

RECURSIVE EndingBalanceLoop(_, _, _, _)
EndingBalanceLoop(ms, targetMonth, i, balance) ==
    IF i > Len(ms) THEN balance
    ELSE LET m == ms[i]
             b == IF StrLess(getYearMonth(m.date), targetMonth)
                  THEN IF m.type = "incoming" THEN balance + m.quantity
                       ELSE IF m.type = "outgoing" THEN balance - m.quantity
                            ELSE balance
                  ELSE balance
         IN  EndingBalanceLoop(ms, targetMonth, i + 1, b)

getEndingBalanceBeforeMonth(ms, targetMonth) ==
    EndingBalanceLoop(ms, targetMonth, 1, 0)

\* shouldItemBeVisible with the opening test written >= 0
shouldItemBeVisible_ZeroOpening(item, targetMonth) ==
    IF hasMovementInMonth(item.movements, targetMonth) THEN TRUE
    ELSE getEndingBalanceBeforeMonth(item.movements, targetMonth) >= 0

\* shouldItemBeVisible decided by the opening balance alone
shouldItemBeVisible_OpeningOnly(item, targetMonth) ==
    getEndingBalanceBeforeMonth(item.movements, targetMonth) > 0

shouldItemBeVisible(item, targetMonth) ==
    IF hasMovementInMonth(item.movements, targetMonth) THEN TRUE
    ELSE LET openingBalance ==
                 getEndingBalanceBeforeMonth(item.movements, targetMonth)
         IN  IF openingBalance > 0 THEN TRUE
             ELSE IF hasIncomingInMonth(item.movements, targetMonth) THEN TRUE
                  ELSE FALSE

\* StatusLoop over the movements of the months before targetMonth only
RECURSIVE StatusLoop_Before(_, _, _, _)
StatusLoop_Before(ms, targetMonth, i, quantity) ==
    IF i > Len(ms) THEN quantity
    ELSE LET m == ms[i]
             q == IF StrLess(getYearMonth(m.date), targetMonth)
                  THEN IF m.type = "incoming" THEN quantity + m.quantity
                       ELSE IF m.type = "outgoing" THEN quantity - m.quantity
                            ELSE quantity
                  ELSE quantity
         IN  StatusLoop_Before(ms, targetMonth, i + 1, q)

\* StatusLoop over all the movements, whatever their month
RECURSIVE StatusLoop_AllMonths(_, _, _, _)
StatusLoop_AllMonths(ms, targetMonth, i, quantity) ==
    IF i > Len(ms) THEN quantity
    ELSE LET m == ms[i]
             q == IF m.type = "incoming" THEN quantity + m.quantity
                  ELSE IF m.type = "outgoing" THEN quantity - m.quantity
                       ELSE quantity
         IN  StatusLoop_AllMonths(ms, targetMonth, i + 1, q)

RECURSIVE StatusLoop(_, _, _, _)
StatusLoop(ms, targetMonth, i, quantity) ==
    IF i > Len(ms) THEN quantity
    ELSE LET m == ms[i]
             q == IF StrLessEq(getYearMonth(m.date), targetMonth)
                  THEN IF m.type = "incoming" THEN quantity + m.quantity
                       ELSE IF m.type = "outgoing" THEN quantity - m.quantity
                            ELSE quantity
                  ELSE quantity
         IN  StatusLoop(ms, targetMonth, i + 1, q)

\* getItemStatusForMonth with the depleted test written < 0
getItemStatusForMonth_Negative(item, targetMonth) ==
    IF item.writtenOffDate # NoStr /\ isInMonth(item.writtenOffDate, targetMonth)
    THEN "written off"
    ELSE IF StatusLoop(item.movements, targetMonth, 1, 0) < 0
         THEN IF item.hasCode THEN "consumed" ELSE "written off"
         ELSE "in stock"

\* getItemStatusForMonth with the written-off test not restricted to the month
getItemStatusForMonth_AnyMonth(item, targetMonth) ==
    IF item.writtenOffDate # NoStr
    THEN "written off"
    ELSE IF StatusLoop(item.movements, targetMonth, 1, 0) <= 0
         THEN IF item.hasCode THEN "consumed" ELSE "written off"
         ELSE "in stock"

getItemStatusForMonth(item, targetMonth) ==
    IF item.writtenOffDate # NoStr /\ isInMonth(item.writtenOffDate, targetMonth)
    THEN "written off"
    ELSE IF StatusLoop(item.movements, targetMonth, 1, 0) <= 0
         THEN IF item.hasCode THEN "consumed" ELSE "written off"
         ELSE "in stock"

\* the row filterCategoriesByMonth builds for one visible item
LedgerRow(item, targetMonth) ==
    LET balance == calculateMonthlyBalance(item.movements, targetMonth)
    IN  [status      |-> getItemStatusForMonth(item, targetMonth),
         openingQty  |-> balance.openingQty,
         incomingQty |-> balance.incomingQty,
         issuedQty   |-> balance.issuedQty,
         endingQty   |-> balance.endingQty]

\* filterCategoriesByMonth on the items of one subcategory
RECURSIVE filterCategoriesByMonth(_, _)
filterCategoriesByMonth(its, targetMonth) ==
    IF Len(its) = 0 THEN <<>>
    ELSE (IF shouldItemBeVisible(its[1], targetMonth)
          THEN <<LedgerRow(its[1], targetMonth)>> ELSE <<>>)
         \o filterCategoriesByMonth(Tail(its), targetMonth)

----------------------------------------------------------------------------
(* The database-backed server: its tables, its clock and its handlers *)

\* the note of an item's first receipt (part_000, line 589)
INITIAL_NOTE == "initial receipt"
\* any other note, e.g. the default note of a write-off (line 725)
OTHER_NOTE == "other"

\* CHECK(type IN ('incoming', 'outgoing', 'transfer')) of table movements
DbTypes == {"incoming", "outgoing", "transfer"}

\* the id the server gives to the item it creates
ItemIds == {"sp-1"}
\* the ids requests name; "sp-0" is the id of no item
RequestIds == ItemIds \cup {"sp-0"}

NoItem == [exists |-> FALSE, quantity |-> 0]

\* dates, months and quantities the clients send
StoreDates == {ClientDate(2025, 12, 31), ClientDate(2026, 2, 1)}
StoreMonths ==
    {MonthValue(999, 12), MonthValue(2025, 12), MonthValue(2026, 1),
     MonthValue(2026, 2)}
QtyInputs == {0, 1, 2}
\* the fields one PUT request sets: none, or one of date, type, quantity
UpdateInputs ==
    {<<Absent, Absent, Absent>>}
    \cup {<<d, Absent, Absent>> : d \in Some(StoreDates)}
    \cup {<<Absent, t, Absent>> : t \in Some(MovementTypes)}
    \cup {<<Absent, Absent, q>> : q \in Some(QtyInputs)}

\* no write-off request received
NoRequest == [id |-> "none", quantity |-> 0, month |-> NoStr]

Resp(status, error, available) ==
    [status |-> status, error |-> error, available |-> available]

getCurrentMonth ==
    NumToStr(today.y) \o <<DASH>> \o PadStart(NumToStr(today.m), 2, ZERO)

\* SELECT ... FROM movements WHERE item_id = ?
MovementsOf(mvs, id) == SelectSeq(mvs, LAMBDA m : m.item_id = id)

RECURSIVE RecalcLoop(_, _, _)
RecalcLoop(ms, i, total) ==
    IF i > Len(ms) THEN total
    ELSE RecalcLoop(ms, i + 1,
            IF ms[i].type = "incoming" THEN total + ms[i].quantity
            ELSE IF ms[i].type = "outgoing" THEN total - ms[i].quantity
                 ELSE total)

\* table items after recalculateItemQuantity(id) on table movements mvs
recalculateItemQuantity(its, mvs, id) ==
    LET finalQty == Max(0, RecalcLoop(MovementsOf(mvs, id), 1, 0))
    IN  [i \in DOMAIN its |->
            IF i = id /\ its[i].exists
            THEN [its[i] EXCEPT !.quantity = finalQty] ELSE its[i]]

ItemExists(id) == id \in DOMAIN items /\ items[id].exists

\* POST /api/spare-parts and POST /api/mo
CreateItem(found, quantity) ==
    /\ UNCHANGED <<today, ledgerVars>>
    /\ request' = NoRequest
    /\ IF ~found
       THEN /\ response' = Resp(404, "Category or subcategory not found", Absent)
            /\ UNCHANGED <<items, movements>>
       ELSE \E newId \in DOMAIN items :
            /\ ~items[newId].exists
            /\ items' = [items EXCEPT ![newId] =
                            [exists |-> TRUE, quantity |-> quantity]]
            /\ IF quantity > 0
               THEN /\ Len(movements) < MaxLen
                    /\ movements' = Append(movements,
                          [item_id |-> newId, date |-> FormatRuDate(today),
                           type |-> "incoming", quantity |-> quantity,
                           notes |-> INITIAL_NOTE])
               ELSE UNCHANGED movements
            /\ response' = Resp(201, NULL, Absent)

\* POST /api/spare-parts/:itemId/movements and POST /api/mo/:itemId/movements
CreateMovement(itemId, date, type, quantity) ==
    /\ UNCHANGED <<today, ledgerVars>>
    /\ request' = NoRequest
    /\ IF ~ItemExists(itemId)
       THEN /\ response' = Resp(404, "Item not found", Absent)
            /\ UNCHANGED <<items, movements>>
       ELSE IF quantity = 0
       THEN /\ response' = Resp(400, "Missing required fields", Absent)
            /\ UNCHANGED <<items, movements>>
       ELSE IF type \notin DbTypes
       THEN \* the INSERT violates the CHECK constraint and throws
            /\ response' = Resp(500, "SQL error", Absent)
            /\ UNCHANGED <<items, movements>>
       ELSE /\ Len(movements) < MaxLen
            /\ movements' = Append(movements,
                  [item_id |-> itemId, date |-> date, type |-> type,
                   quantity |-> quantity, notes |-> OTHER_NOTE])
            /\ items' = recalculateItemQuantity(items, movements', itemId)
            /\ response' = Resp(201, NULL, Absent)

\* COALESCE(?, column) with the parameter `update ?? null`
Coalesce(update, column) == IF update = Absent THEN column ELSE update[1]

\* PUT /api/spare-parts/:itemId/movements/:movementId (and /api/mo/...)
\* the movement is named by its row number k
UpdateMovement(itemId, k, date, type, quantity) ==
    /\ UNCHANGED <<today, ledgerVars>>
    /\ request' = NoRequest
    /\ IF ~(k <= Len(movements) /\ movements[k].item_id = itemId)
       THEN /\ response' = Resp(404, "Movement not found", Absent)
            /\ UNCHANGED <<items, movements>>
       ELSE IF type # Absent /\ type[1] \notin DbTypes
       THEN /\ response' = Resp(500, "SQL error", Absent)
            /\ UNCHANGED <<items, movements>>
       ELSE /\ movements' = [movements EXCEPT ![k] =
                  [@ EXCEPT !.date = Coalesce(date, @),
                            !.type = Coalesce(type, @),
                            !.quantity = Coalesce(quantity, @)]]
            /\ items' = recalculateItemQuantity(items, movements', itemId)
            /\ response' = Resp(200, NULL, Absent)

RemoveAt(seq, k) == SubSeq(seq, 1, k - 1) \o SubSeq(seq, k + 1, Len(seq))

\* DELETE /api/spare-parts/:itemId/movements/:movementId (and /api/mo/...)
DeleteMovement(itemId, k) ==
    /\ UNCHANGED <<today, ledgerVars>>
    /\ request' = NoRequest
    /\ IF ~(k <= Len(movements) /\ movements[k].item_id = itemId)
       THEN /\ response' = Resp(404, "Movement not found", Absent)
            /\ UNCHANGED <<items, movements>>
       ELSE /\ movements' = RemoveAt(movements, k)
            /\ items' = recalculateItemQuantity(items, movements', itemId)
            /\ response' = Resp(200, NULL, Absent)

\* DELETE of an item that removes the items row only
DeleteItem_KeepMovements(id) ==
    /\ UNCHANGED <<today, ledgerVars>>
    /\ request' = NoRequest
    /\ IF ~ItemExists(id)
       THEN /\ response' = Resp(404, "Item not found", Absent)
            /\ UNCHANGED <<items, movements>>
       ELSE /\ movements' = movements
            /\ items' = [items EXCEPT ![id] = NoItem]
            /\ response' = Resp(200, "Item deleted", Absent)

\* DELETE /api/spare-parts/:id and DELETE /api/mo/:id
DeleteItem(id) ==
    /\ UNCHANGED <<today, ledgerVars>>
    /\ request' = NoRequest
    /\ IF ~ItemExists(id)
       THEN /\ response' = Resp(404, "Item not found", Absent)
            /\ UNCHANGED <<items, movements>>
       ELSE /\ movements' = SelectSeq(movements, LAMBDA m : m.item_id # id)
            /\ items' = [items EXCEPT ![id] = NoItem]
            /\ response' = Resp(200, "Item deleted", Absent)

\* SELECT ... WHERE item_id = ? AND type = 'incoming' AND notes = <initial
\* note>: the row number of the first such movement, 0 when there is none
RECURSIVE InitialMovement(_, _)
InitialMovement(id, k) ==
    IF k > Len(movements) THEN 0
    ELSE IF /\ movements[k].item_id = id
            /\ movements[k].type = "incoming"
            /\ movements[k].notes = INITIAL_NOTE
         THEN k
         ELSE InitialMovement(id, k + 1)

\* PUT /api/spare-parts/:id and PUT /api/mo/:id, lines 383-425: table
\* movements after a request that sets the quantity to newQty
CorrectedMovements(id, newQty) ==
    LET k == InitialMovement(id, 1)
        currentTotal == Max(0, RecalcLoop(MovementsOf(movements, id), 1, 0))
        diff == newQty - currentTotal
    IN  IF k # 0
        THEN IF movements[k].quantity + diff >= 0
             THEN [movements EXCEPT ![k].quantity = @ + diff]
             ELSE movements
        ELSE IF diff # 0
             THEN Append(movements,
                    [item_id |-> id, date |-> FormatRuDate(today),
                     type |-> IF diff > 0 THEN "incoming" ELSE "outgoing",
                     quantity |-> IF diff > 0 THEN diff ELSE -diff,
                     notes |-> OTHER_NOTE])
             ELSE movements

\* PUT /api/spare-parts/:id and PUT /api/mo/:id; quantity is the optional
\* field updates.quantity
UpdateItem(id, quantity) ==
    /\ UNCHANGED <<today, ledgerVars>>
    /\ request' = NoRequest
    /\ IF ~ItemExists(id)
       THEN /\ response' = Resp(404, "Item not found", Absent)
            /\ UNCHANGED <<items, movements>>
       ELSE /\ movements' =
                  IF quantity # Absent /\ quantity[1] # items[id].quantity
                  THEN CorrectedMovements(id, quantity[1])
                  ELSE movements
            /\ Len(movements') <= MaxLen \/ movements' = movements
            /\ items' = recalculateItemQuantity(
                            [items EXCEPT ![id].quantity =
                                Coalesce(quantity, @)],
                            movements', id)
            /\ response' = Resp(200, NULL, Absent)

\* new Date(year, monthNum, 0).getDate(): the days of month monthNum of year
\* (years 0..99 are years 1900..1999 to the Date constructor)
DaysInMonth(year, monthNum) ==
    LET y == IF year <= 99 THEN 1900 + year ELSE year
        leap == (y % 4 = 0 /\ y % 100 # 0) \/ y % 400 = 0
    IN  IF monthNum = 2 THEN (IF leap THEN 29 ELSE 28)
        ELSE IF monthNum \in {4, 6, 9, 11} THEN 30 ELSE 31

\* write-off, lines 693-720: the date of the generated movement
WriteOffDate(month) ==
    IF month # NoStr /\ MonthRegex(month)
    THEN LET p == Split(month, DASH)
             year == StrToNum(p[1])
             monthNum == StrToNum(p[2])
         IN  IF year = today.y /\ monthNum = today.m
             THEN FormatRuDate(today)
             ELSE IF year < today.y \/ (year = today.y /\ monthNum < today.m)
                  THEN PadStart(NumToStr(DaysInMonth(year, monthNum)), 2, ZERO)
                       \o <<DOT>> \o PadStart(NumToStr(monthNum), 2, ZERO)
                       \o <<DOT>> \o NumToStr(year)
                  ELSE <<ZERO, ZERO + 1, DOT>>
                       \o PadStart(NumToStr(monthNum), 2, ZERO)
                       \o <<DOT>> \o NumToStr(year)
    ELSE FormatRuDate(today)

\* AvailableQty taken from the ending quantity of the month
AvailableQty_Ending(itemId, month) ==
    LET targetMonth == IF month = NoStr THEN getCurrentMonth ELSE month
        balance == calculateMonthlyBalance(MovementsOf(movements, itemId),
                                           targetMonth)
    IN  balance.endingQty

\* write-off, lines 684-686: the quantity the request is checked against
AvailableQty(itemId, month) ==
    LET targetMonth == IF month = NoStr THEN getCurrentMonth ELSE month
        balance == calculateMonthlyBalance(MovementsOf(movements, itemId),
                                           targetMonth)
    IN  balance.openingQty + balance.incomingQty - balance.issuedQty

\* the response POST /api/spare-parts/:id/write-off (and /api/mo/...) sends
WriteOffResponse(id, quantity, month) ==
    IF quantity <= 0
    THEN Resp(400, "Invalid quantity", Absent)
    ELSE IF ~ItemExists(id)
    THEN Resp(404, "Item not found", Absent)
    ELSE LET availableQty == AvailableQty(id, month)
         IN  IF quantity > availableQty
             THEN Resp(400, "Write-off quantity exceeds available quantity",
                       <<availableQty>>)
             ELSE Resp(200, NULL, Absent)

\* the movement the handler inserts when it accepts the request
WriteOffMovement(id, quantity, month) ==
    [item_id |-> id, date |-> WriteOffDate(month), type |-> "outgoing",
     quantity |-> quantity, notes |-> OTHER_NOTE]

\* table movements after the handler has run
WriteOffMovements(id, quantity, month) ==
    IF WriteOffResponse(id, quantity, month).status = 200
    THEN Append(movements, WriteOffMovement(id, quantity, month))
    ELSE movements

\* POST /api/spare-parts/:id/write-off and POST /api/mo/:id/write-off
WriteOff(id, quantity, month) ==
    LET res == WriteOffResponse(id, quantity, month)
    IN  /\ res.status = 200 => Len(movements) < MaxMovements
        /\ movements' = IF res.status = 200
                        THEN Append(movements,
                                    WriteOffMovement(id, quantity, month))
                        ELSE movements
        /\ request' = [id |-> id, quantity |-> quantity, month |-> month]
        /\ response' = res
        /\ UNCHANGED <<today, items, ledgerVars>>

LedgerIdle ==
    /\ in_kind = "spare_parts"
    /\ in_item = [movements |-> <<>>, writtenOffDate |-> NoStr, hasCode |-> FALSE]
    /\ in_month = NoStr
    /\ pc = "idle"
    /\ out = [computed |-> FALSE]
    /\ outNext = [computed |-> FALSE]

\* createTables: empty tables; the clock reads 15.01.2026
Init ==
    /\ today = [y |-> 2026, m |-> 1, d |-> 15]
    /\ items = [i \in ItemIds |-> NoItem]
    /\ movements = <<>>
    /\ request = NoRequest
    /\ response = Resp(0, NULL, Absent)
    /\ LedgerIdle

Next ==
    \/ \E found \in BOOLEAN, q \in QtyInputs : CreateItem(found, q)
    \/ \E id \in ItemIds, d \in StoreDates, t \in MovementTypes,
          q \in QtyInputs : CreateMovement(id, d, t, q)
    \/ \E id \in ItemIds, k \in 1..MaxLen, u \in UpdateInputs :
          UpdateMovement(id, k, u[1], u[2], u[3])
    \/ \E id \in ItemIds, k \in 1..MaxLen : DeleteMovement(id, k)
    \/ \E id \in ItemIds, q \in {Absent} \cup Some(QtyInputs) :
          UpdateItem(id, q)
    \/ \E id \in ItemIds : DeleteItem(id)
    \/ \E id \in ItemIds, q \in QtyInputs \cup {3},
          m \in {MonthValue(2025, 12), NoStr} :
          /\ Len(WriteOffMovements(id, q, m)) <= MaxLen
          /\ WriteOff(id, q, m)

Spec == Init /\ [][Next]_vars

----------------------------------------------------------------------------
(* One write-off request against each store the handlers above can build:  *)
(* one item whose movements were recorded through POST .../movements, its  *)
(* cached quantity as recalculateItemQuantity left it.                     *)

\* the dates and the types of the movements recorded so far
WriteOffDates ==
    {ClientDate(999, 12, 31), ClientDate(2025, 12, 31), ClientDate(2026, 1, 15)}
WriteOffTypes == {"incoming", "outgoing"}

RecordedMovements ==
    [item_id : ItemIds, date : WriteOffDates, type : WriteOffTypes,
     quantity : 1..MaxQty, notes : {OTHER_NOTE}]

WriteOffInit ==
    /\ today = [y |-> 2026, m |-> 1, d |-> 15]
    /\ movements \in SeqsUpTo(RecordedMovements, MaxLen)
    /\ items = recalculateItemQuantity(
                  [i \in ItemIds |-> [exists |-> TRUE, quantity |-> 0]],
                  movements, "sp-1")
    /\ request = NoRequest
    /\ response = Resp(0, NULL, Absent)
    /\ LedgerIdle

\* one request is served on each store
WriteOffNext ==
    /\ request = NoRequest
    /\ \E id \in RequestIds, q \in 0..(MaxQty + 1),
          m \in StoreMonths \cup {NoStr} : WriteOff(id, q, m)

SpecWriteOff == WriteOffInit /\ [][WriteOffNext]_vars

----------------------------------------------------------------------------
(* The ledger client: one item, one target month, then the month after *)

NoLedger == [computed |-> FALSE]

\* what GET /api/spare-parts?month=M computes for one item
LedgerOf(item, month) ==
    [computed |-> TRUE,
     balance  |-> calculateMonthlyBalance(item.movements, month),
     visible  |-> shouldItemBeVisible(item, month),
     status   |-> getItemStatusForMonth(item, month),
     rows     |-> filterCategoriesByMonth(<<item>>, month)]

LedgerDates ==
    {ClientDate(2025, 12, 31), ClientDate(2026, 1, 1), ClientDate(2026, 2, 5)}

LedgerMonths == {MonthValue(2025, 12), MonthValue(2026, 1)}

LedgerQuantities == {1, 2}

LedgerMovements ==
    [date : LedgerDates, type : MovementTypes, quantity : LedgerQuantities]

LedgerItems ==
    [movements : SeqsUpTo(LedgerMovements, MaxLen),
     writtenOffDate : {NoStr},
     hasCode : {FALSE}]

StoreIdle ==
    /\ today = [y |-> 2026, m |-> 1, d |-> 15]
    /\ items = [i \in ItemIds |-> NoItem]
    /\ movements = <<>>
    /\ request = NoRequest
    /\ response = Resp(0, NULL, Absent)

LedgerInit ==
    /\ StoreIdle
    /\ in_kind = "spare_parts"
    /\ in_item \in LedgerItems
    /\ in_month \in LedgerMonths
    /\ pc = "start"
    /\ out = NoLedger
    /\ outNext = NoLedger

QueryMonth ==
    /\ pc = "start"
    /\ out' = LedgerOf(in_item, in_month)
    /\ pc' = "queried"
    /\ UNCHANGED <<in_kind, in_item, in_month, outNext, storeVars>>

QueryNextMonth ==
    /\ pc = "queried"
    /\ outNext' = LedgerOf(in_item, NextMonth(in_month))
    /\ pc' = "done"
    /\ UNCHANGED <<in_kind, in_item, in_month, out, storeVars>>

LedgerNext == QueryMonth \/ QueryNextMonth

SpecLedger == LedgerInit /\ [][LedgerNext]_vars

----------------------------------------------------------------------------
(* The ledger of an item as the lists of the server load it from the       *)
(* database: GET /api/spare-parts and GET /api/mo                          *)

ItemKinds == {"spare_parts", "mo"}

\* ORDER BY date DESC: the rows by descending date string, rowid order kept
\* among equal dates
RECURSIVE OrderByDateDesc(_)
OrderByDateDesc(ms) ==
    IF Len(ms) <= 1 THEN ms
    ELSE LET rest == OrderByDateDesc(Tail(ms))
             before == SelectSeq(rest, LAMBDA m : StrLess(ms[1].date, m.date))
             after == SelectSeq(rest, LAMBDA m : ~StrLess(ms[1].date, m.date))
         IN  before \o <<ms[1]>> \o after

\* getCategoriesWithItems: the item object built from a row of table items
\* and its rows of table movements; no column gives it a `code` property
LoadItem(writtenOffDate, ms) ==
    [movements |-> OrderByDateDesc(ms),
     writtenOffDate |-> writtenOffDate,
     hasCode |-> FALSE]

\* column written_off_date: NULL, or a DD.MM.YYYY date
WrittenOffDates == {NoStr, ClientDate(2025, 12, 31), ClientDate(2026, 1, 1)}

StoredMovements ==
    [date : LedgerDates, type : DbTypes, quantity : LedgerQuantities]

StatusInit ==
    /\ StoreIdle
    /\ in_kind \in ItemKinds
    /\ \E w \in WrittenOffDates, ms \in SeqsUpTo(StoredMovements, MaxLen) :
          in_item = LoadItem(w, ms)
    /\ in_month \in LedgerMonths
    /\ pc = "start"
    /\ out = NoLedger
    /\ outNext = NoLedger

SpecStatus == StatusInit /\ [][LedgerNext]_vars

----------------------------------------------------------------------------
(* Reference quantities of the claims: months compared as numbers *)

MonthNumOfDate(dateStr) ==
    LET p == Split(dateStr, DOT) IN 12 * StrToNum(p[3]) + StrToNum(p[2])

MonthNumOf(month) ==
    LET p == Split(month, DASH) IN 12 * StrToNum(p[1]) + StrToNum(p[2])

RECURSIVE SumSet(_, _)
SumSet(f, S) ==
    IF S = {} THEN 0
    ELSE LET x == CHOOSE y \in S : TRUE IN f[x] + SumSet(f, S \ {x})

IdxBefore(ms, month) ==
    {i \in 1..Len(ms) : MonthNumOfDate(ms[i].date) < MonthNumOf(month)}
IdxIn(ms, month) ==
    {i \in 1..Len(ms) : MonthNumOfDate(ms[i].date) = MonthNumOf(month)}

QtyOfType(ms, type) ==
    [i \in 1..Len(ms) |-> IF ms[i].type = type THEN ms[i].quantity ELSE 0]

\* signed sum of the movements dated in a month before `month`
SignedBefore(ms, month) ==
    SumSet(QtyOfType(ms, "incoming"), IdxBefore(ms, month))
    - SumSet(QtyOfType(ms, "outgoing"), IdxBefore(ms, month))
IncomingIn(ms, month) == SumSet(QtyOfType(ms, "incoming"), IdxIn(ms, month))
IssuedIn(ms, month) == SumSet(QtyOfType(ms, "outgoing"), IdxIn(ms, month))
\* signed sum of the movements dated in `month` or before
SignedThrough(ms, month) ==
    SignedBefore(ms, month) + IncomingIn(ms, month) - IssuedIn(ms, month)

Reorderings(ms) ==
    {[i \in 1..Len(ms) |-> ms[p[i]]] :
        p \in {q \in [1..Len(ms) -> 1..Len(ms)] :
                  \A a, b \in 1..Len(ms) : q[a] = q[b] => a = b}}

in_next == NextMonth(in_month)
in_ms == in_item.movements

----------------------------------------------------------------------------
(* Claims about the ledger engine, checked under SpecLedger *)

Bucketed(l, month) ==
    l.computed =>
        /\ l.balance.openingQty = Max(0, SignedBefore(in_ms, month))
        /\ l.balance.incomingQty = IncomingIn(in_ms, month)
        /\ l.balance.issuedQty = IssuedIn(in_ms, month)
        /\ l.balance.endingQty = Max(0, SignedThrough(in_ms, month))

\* C1: calculateMonthlyBalance buckets each movement by its month only:
\* movements of months before M make the (signed) opening sum, movements of M
\* make incomingQty and issuedQty, movements of later months contribute to
\* nothing.
C1_BucketsByMonth == Bucketed(out, in_month) /\ Bucketed(outNext, in_next)

\* a movement of the month before, and one of a later month that is ignored
C1_Witness ==
    /\ pc = "done"
    /\ out.balance.incomingQty > 0
    /\ outNext.balance.openingQty > 0
    /\ \E i \in 1..Len(in_ms) :
          MonthNumOfDate(in_ms[i].date) > MonthNumOf(in_next)
    /\ outNext.balance.incomingQty = 0
    /\ outNext.balance.issuedQty = 0

\* C2 (as claimed): openingQty = max(0, signed opening sum) and endingQty =
\* max(0, openingQty + incomingQty - issuedQty) with the returned, clamped
\* openingQty, also when the signed opening sum is negative.
C2_EndingFromClampedOpening ==
    out.computed =>
        /\ out.balance.openingQty = Max(0, SignedBefore(in_ms, in_month))
        /\ out.balance.endingQty =
              Max(0, out.balance.openingQty + out.balance.incomingQty
                     - out.balance.issuedQty)

RowsClamped(l, month) ==
    l.computed =>
        \A r \in 1..Len(l.rows) :
            /\ l.rows[r].openingQty >= 0
            /\ l.rows[r].endingQty >= 0
            /\ l.rows[r].incomingQty = IncomingIn(in_ms, month)
            /\ l.rows[r].issuedQty = IssuedIn(in_ms, month)

\* C3: in every ledger row openingQty >= 0 and endingQty >= 0, while
\* incomingQty and issuedQty are the raw monthly sums, also for histories in
\* which outgoing exceeds incoming.
C3_RowsNeverNegative == RowsClamped(out, in_month) /\ RowsClamped(outNext, in_next)

\* a row of a month whose signed ending sum is negative
C3_Witness ==
    /\ out.computed
    /\ Len(out.rows) = 1
    /\ SignedThrough(in_ms, in_month) < 0
    /\ out.rows[1].endingQty = 0
    /\ out.rows[1].issuedQty > out.rows[1].incomingQty

NoClampIn(month) ==
    SignedBefore(in_ms, month) >= 0 /\ SignedThrough(in_ms, month) >= 0

\* C4: continuity: when no clamp fired in M, openingQty(M+1) = endingQty(M),
\* also from December to January.
C4_Continuity ==
    (pc = "done" /\ NoClampIn(in_month)) =>
        outNext.balance.openingQty = out.balance.endingQty

\* stock carried from December 2025 into January 2026
C4_Witness ==
    /\ pc = "done"
    /\ in_month = MonthValue(2025, 12)
    /\ NoClampIn(in_month)
    /\ out.balance.endingQty > 0
    /\ outNext.balance.openingQty = out.balance.endingQty

\* C5: the MonthlyBalance does not depend on the order of the movement list:
\* every permutation of the list gives the balance the given order gives.
C5_OrderIndependent ==
    out.computed =>
        \A p \in Reorderings(in_ms) :
            calculateMonthlyBalance(p, in_month) = out.balance

\* two different movements, an issue listed before the receipt
C5_Witness ==
    /\ out.computed
    /\ Len(in_ms) = 2
    /\ in_ms[1].type = "outgoing"
    /\ in_ms[2].type = "incoming"
    /\ MonthNumOfDate(in_ms[1].date) < MonthNumOf(in_month)
    /\ MonthNumOfDate(in_ms[2].date) < MonthNumOf(in_month)
    /\ out.balance.openingQty > 0

VisibleAsRuled(l, month) ==
    l.computed =>
        (l.visible <=> (IdxIn(in_ms, month) # {} \/ SignedBefore(in_ms, month) > 0))

\* C9: shouldItemBeVisible is true exactly when the item has a movement of
\* any type dated in M or the unclamped signed sum before M is > 0.
C9_VisibleExactly == VisibleAsRuled(out, in_month) /\ VisibleAsRuled(outNext, in_next)

\* visible through a movement in M, hidden in M+1 with a negative balance
C9_Witness ==
    /\ pc = "done"
    /\ out.visible
    /\ ~outNext.visible
    /\ SignedBefore(in_ms, in_next) < 0
    /\ \E i \in IdxIn(in_ms, in_month) : in_ms[i].type = "transfer"

\* C10: visibility monotonicity: endingQty(M) > 0 makes the item visible in
\* M+1, with openingQty(M+1) = endingQty(M) when M+1 has no movement;
\* endingQty(M) = 0 and no movement in M+1 make it hidden in M+1.
C10_VisibilityMonotone ==
    pc = "done" =>
        /\ out.balance.endingQty > 0 => outNext.visible
        /\ (out.balance.endingQty > 0 /\ IdxIn(in_ms, in_next) = {}) =>
              outNext.balance.openingQty = out.balance.endingQty
        /\ (out.balance.endingQty = 0 /\ IdxIn(in_ms, in_next) = {}) =>
              ~outNext.visible

\* stock left at the end of M, nothing moved in M+1, opening clamped in M
C10_Witness ==
    /\ pc = "done"
    /\ SignedBefore(in_ms, in_month) < 0
    /\ out.balance.endingQty > 0
    /\ IdxIn(in_ms, in_next) = {}
    /\ outNext.visible
    /\ outNext.balance.openingQty = out.balance.endingQty

----------------------------------------------------------------------------
(* Claims about the write-off handler, checked under SpecWriteOff.         *)
(* In a step that serves a request, the unprimed variables are the store   *)
(* before the request, the primed ones the store after it, and request'    *)
(* is the request served.                                                  *)

\* the step serves a write-off request for an existing item
Served == request = NoRequest /\ request' # NoRequest /\ ItemExists(request'.id)

\* the month the request is checked against
WriteOffMonth == IF request'.month = NoStr THEN getCurrentMonth ELSE request'.month

\* the movements of the item before and after the request
MovementsBefore == MovementsOf(movements, request'.id)
MovementsAfter == MovementsOf(movements', request'.id)

\* available = openingQty(M) + incomingQty(M) - issuedQty(M) before the request
Available ==
    Max(0, SignedBefore(MovementsBefore, WriteOffMonth))
    + IncomingIn(MovementsBefore, WriteOffMonth)
    - IssuedIn(MovementsBefore, WriteOffMonth)

Rejectable == request'.quantity <= 0 \/ request'.quantity > Available

\* C6 (amended): a write-off request for q against month M is rejected
\* whenever q <= 0 or q > available; the error reports the available quantity
\* when q > available with q > 0, and reports no quantity when q <= 0; a
\* rejected request leaves the movements and the cached quantity unchanged.
C6_RejectedLeavesStore ==
    [][(Served /\ Rejectable) =>
          /\ response'.status = 400
          /\ movements' = movements
          /\ items' = items
          /\ request'.quantity > 0 => response'.available = <<Available>>
          /\ request'.quantity <= 0 => response'.available = Absent]_vars

\* a request above a positive available quantity whose opening sum was
\* clamped, rejected with that quantity reported
C6_Witness ==
    /\ request # NoRequest
    /\ ItemExists(request.id)
    /\ request.month # NoStr
    /\ response.status = 400
    /\ response.available # Absent
    /\ response.available[1] > 0
    /\ request.quantity > response.available[1]
    /\ SignedBefore(MovementsOf(movements, request.id), request.month) < 0
    /\ items[request.id].quantity = 0

\* C6 (as claimed): every request with q <= 0 or q > available is rejected
\* with an error that reports the available quantity, and leaves the
\* movements and the cached quantity unchanged.
C6_AlwaysReportsAvailable ==
    [][(Served /\ Rejectable) =>
          /\ response'.status = 400
          /\ response'.available = <<Available>>
          /\ movements' = movements
          /\ items' = items]_vars

\* C7 (as claimed): for every item and month M with available > 0, a request
\* for q = available + 1 is rejected, and a request for q = available is
\* accepted and afterwards endingQty(M), recomputed from the stored
\* movements, is exactly 0.
C7_ExactWriteOffEmptiesMonth ==
    [][(Served /\ request'.month # NoStr /\ Available > 0) =>
          /\ request'.quantity = Available + 1 =>
                response'.status = 400 /\ movements' = movements
          /\ request'.quantity = Available =>
                /\ response'.status = 200
                /\ calculateMonthlyBalance(MovementsAfter,
                                           request'.month).endingQty = 0]_vars

\* the days of month m of year y in the Gregorian calendar
CalendarDays(y, m) ==
    LET leap == (y % 4 = 0 /\ y % 100 # 0) \/ y % 400 = 0
    IN  IF m = 2 THEN (IF leap THEN 29 ELSE 28)
        ELSE IF m \in {4, 6, 9, 11} THEN 30 ELSE 31

\* the DD.MM.YYYY date the write-off policy gives for month M = YYYY-MM
PolicyDate(month) ==
    LET p == Split(month, DASH)
        y == StrToNum(p[1])
        m == StrToNum(p[2])
        day == IF 12 * y + m = 12 * today.y + today.m THEN today.d
               ELSE IF 12 * y + m < 12 * today.y + today.m
                    THEN CalendarDays(y, m) ELSE 1
    IN  PadStart(NumToStr(day), 2, ZERO) \o <<DOT>> \o p[2] \o <<DOT>> \o p[1]

\* C8 (as claimed): for every accepted write-off request naming a month M the
\* generated outgoing movement is dated today when M is the current month,
\* the last day of M when M is past, the first day of M when M is future, so
\* that the month of its date is M and it is counted in issuedQty(M).
C8_GeneratedDateInMonth ==
    [][(Served /\ request'.month # NoStr /\ response'.status = 200) =>
          /\ Len(movements') = Len(movements) + 1
          /\ LET generated == movements'[Len(movements')]
             IN  /\ movements' = Append(movements, generated)
                 /\ generated.type = "outgoing"
                 /\ generated.quantity = request'.quantity
                 /\ generated.date = PolicyDate(request'.month)
                 /\ getYearMonth(generated.date) = request'.month
          /\ calculateMonthlyBalance(MovementsAfter, request'.month).issuedQty
                = calculateMonthlyBalance(MovementsBefore, request'.month).issuedQty
                  + request'.quantity]_vars

\* months whose year is written without a leading zero
PlainYear(month) == month # NoStr /\ month[1] # ZERO

\* C7 and C8 restricted to the months whose year has four significant digits
C7_FromYear1000 ==
    [][(Served /\ PlainYear(request'.month) /\ Available > 0) =>
          /\ request'.quantity = Available + 1 =>
                response'.status = 400 /\ movements' = movements
          /\ request'.quantity = Available =>
                /\ response'.status = 200
                /\ calculateMonthlyBalance(MovementsAfter,
                                           request'.month).endingQty = 0]_vars

C8_FromYear1000 ==
    [][(Served /\ PlainYear(request'.month) /\ response'.status = 200) =>
          /\ Len(movements') = Len(movements) + 1
          /\ LET generated == movements'[Len(movements')]
             IN  /\ movements' = Append(movements, generated)
                 /\ generated.type = "outgoing"
                 /\ generated.quantity = request'.quantity
                 /\ generated.date = PolicyDate(request'.month)
                 /\ getYearMonth(generated.date) = request'.month
          /\ calculateMonthlyBalance(MovementsAfter, request'.month).issuedQty
                = calculateMonthlyBalance(MovementsBefore, request'.month).issuedQty
                  + request'.quantity]_vars

\* an accepted write-off of all that is available in a past, a current and a
\* future month
AcceptedAll(month) ==
    /\ request # NoRequest
    /\ request.month = month
    /\ response.status = 200
    /\ calculateMonthlyBalance(MovementsOf(movements, request.id),
                               month).endingQty = 0
    /\ calculateMonthlyBalance(MovementsOf(movements, request.id),
                               month).issuedQty = request.quantity

----------------------------------------------------------------------------
(* One request that names a month, well-formed or not, against each store: *)
(* a listing (GET /api/spare-parts, GET /api/mo) or a write-off            *)

\* the list an item belongs to (the type of its category)
KindOf(id) == IF id = "sp-1" THEN "spare_parts" ELSE "mo"

\* getCategoriesWithItems(kind): the items of the list, with their movements
RECURSIVE ItemsOfKind(_, _)
ItemsOfKind(kind, ids) ==
    IF ids = {} THEN <<>>
    ELSE LET id == CHOOSE i \in ids : TRUE
         IN  (IF ItemExists(id) /\ KindOf(id) = kind
              THEN <<LoadItem(NoStr, MovementsOf(movements, id))>>
              ELSE <<>>)
             \o ItemsOfKind(kind, ids \ {id})

\* GET /api/spare-parts?month= and GET /api/mo?month=
GetList(kind, month) ==
    LET targetMonth == IF month = NoStr THEN getCurrentMonth ELSE month
    IN  /\ pc' = "listed"
        /\ in_kind' = kind
        /\ in_month' = month
        /\ IF ~MonthRegex(targetMonth)
           THEN /\ response' = Resp(400, "Invalid month format", Absent)
                /\ out' = out
           ELSE /\ response' = Resp(200, NULL, Absent)
                /\ out' = [computed |-> TRUE,
                           rows |-> filterCategoriesByMonth(
                                      ItemsOfKind(kind, DOMAIN items),
                                      targetMonth)]
        /\ UNCHANGED <<today, items, movements, request, in_item, outNext>>

\* months as the clients may send them: 2026-01, and the strings 2026-1 and x
MonthInputs ==
    {MonthValue(2026, 1), NumToStr(2026) \o <<DASH>> \o NumToStr(1), <<120>>}

MonthNext ==
    /\ request = NoRequest
    /\ pc = "idle"
    /\ \/ \E kind \in ItemKinds, m \in MonthInputs \cup {NoStr} :
              GetList(kind, m)
       \/ \E id \in ItemIds, q \in 1..MaxQty, m \in MonthInputs :
              WriteOff(id, q, m)

SpecMonth == WriteOffInit /\ [][MonthNext]_vars

----------------------------------------------------------------------------
(* Claims about the status of an item, checked under SpecStatus *)

\* the item's writtenOffDate is set and falls within `month`
WrittenOffIn(month) ==
    /\ in_item.writtenOffDate # NoStr
    /\ MonthNumOfDate(in_item.writtenOffDate) = MonthNumOf(month)

\* the item without its writtenOffDate
NotWrittenOff == [in_item EXCEPT !.writtenOffDate = NoStr]

WrittenOffDecides(l, month) ==
    l.computed =>
        /\ WrittenOffIn(month) => l.status = "written off"
        /\ ~WrittenOffIn(month) =>
              l.status = getItemStatusForMonth(NotWrittenOff, month)

\* C11: an item whose writtenOffDate is set and falls within M has status
\* 'written off' for M whatever its movements are; a writtenOffDate of any
\* other month leaves the status of M what it is without the date.
C11_WrittenOffInMonth ==
    WrittenOffDecides(out, in_month) /\ WrittenOffDecides(outNext, in_next)

\* written off in M with stock left, in stock again in M+1
C11_Witness ==
    /\ pc = "done"
    /\ WrittenOffIn(in_month)
    /\ SignedThrough(in_ms, in_month) > 0
    /\ out.status = "written off"
    /\ outNext.status = "in stock"

Depleted == {"consumed", "written off"}

StatusByRunningQuantity(l, month) ==
    (l.computed /\ ~WrittenOffIn(month)) =>
        /\ l.status = "in stock" <=> SignedThrough(in_ms, month) > 0
        /\ SignedThrough(in_ms, month) <= 0 => l.status \in Depleted

\* C12: when writtenOffDate is not in M, the status of M is 'in stock' exactly
\* when the signed running quantity over the movements of months <= M
\* (incoming adds, outgoing subtracts, transfer excluded) is > 0, and is a
\* depleted status when it is <= 0.
C12_StatusFromRunningQuantity ==
    StatusByRunningQuantity(out, in_month) /\ StatusByRunningQuantity(outNext, in_next)

\* in stock in M through a receipt of M itself, depleted by an issue of M+1
C12_Witness ==
    /\ pc = "done"
    /\ ~WrittenOffIn(in_month)
    /\ ~WrittenOffIn(in_next)
    /\ SignedBefore(in_ms, in_month) = 0
    /\ out.status = "in stock"
    /\ outNext.status \in Depleted

DepletedLabel(l, month) ==
    (l.computed /\ ~WrittenOffIn(month) /\ SignedThrough(in_ms, month) <= 0) =>
        l.status = IF in_kind = "mo" THEN "consumed" ELSE "written off"

\* C13 (as claimed): an MO item, as the MO list loads it, whose running
\* quantity through M is <= 0 and whose writtenOffDate is not in M has status
\* 'consumed' for M; a spare-part item in the same situation has status
\* 'written off'.
C13_ConsumedForMO == DepletedLabel(out, in_month) /\ DepletedLabel(outNext, in_next)

\* the item has a receipt dated in `month`
ReceivedIn(month) == \E i \in IdxIn(in_ms, month) : in_ms[i].type = "incoming"

----------------------------------------------------------------------------
(* Claims about the store, checked under Spec *)

\* sum of the incoming minus sum of the outgoing quantities of the item's
\* stored movements
SignedTotal(id) ==
    LET ms == MovementsOf(movements, id)
    IN  SumSet(QtyOfType(ms, "incoming"), 1..Len(ms))
        - SumSet(QtyOfType(ms, "outgoing"), 1..Len(ms))

\* C15 (as claimed): cached-quantity invariant: once an operation on an item
\* (creation with initial stock, movement create, update, delete, write-off,
\* manual quantity correction) has completed, the item's stored quantity
\* equals max(0, sum of incoming - sum of outgoing) over its stored movements.
C15_CachedQuantity ==
    \A id \in DOMAIN items :
        items[id].exists => items[id].quantity = Max(0, SignedTotal(id))

\* C18 (as claimed): no operation stores a movement whose quantity is zero or
\* negative: movement creation, movement update, write-off and manual
\* quantity correction reject such a quantity, so in every reachable state
\* all stored movements have quantity >= 1.
C18_StoredQuantitiesPositive ==
    \A k \in 1..Len(movements) : movements[k].quantity >= 1

----------------------------------------------------------------------------
(* Claims about the movement types *)

\* what the engine and the store compute from the movement list ms of the
\* item: the balance and the status of `month`, and the current quantity
Computed(ms, month) ==
    [balance  |-> calculateMonthlyBalance(ms, month),
     status   |-> getItemStatusForMonth([in_item EXCEPT !.movements = ms], month),
     stock    |-> calculateCurrentStock(ms),
     quantity |-> Max(0, RecalcLoop(ms, 1, 0))]

\* the other of the two types 'write-off' and 'outgoing'
Swapped(type) == IF type = "write-off" THEN "outgoing" ELSE "write-off"

\* C16 (as claimed): a movement of type 'write-off' reduces stock exactly like
\* an 'outgoing' movement of the same date and quantity: replacing one by the
\* other in a movement list changes neither the balance of a month, nor the
\* status of a month, nor the recalculated current quantity.
C16_WriteOffAsOutgoing ==
    out.computed =>
        \A i \in 1..Len(in_ms) :
            in_ms[i].type \in {"write-off", "outgoing"} =>
                \A month \in {in_month, in_next} :
                    Computed([in_ms EXCEPT ![i].type = Swapped(@)], month)
                        = Computed(in_ms, month)

\* the lists a transfer movement at row i was edited into, or removed from
WithoutTransfer(i) ==
    {RemoveAt(in_ms, i)}
    \cup {[in_ms EXCEPT ![i].date = d, ![i].quantity = q] :
             d \in LedgerDates, q \in LedgerQuantities}

\* C17: transfer movements are informational only: removing a movement of
\* type 'transfer' (so also adding it), or editing its date and quantity,
\* leaves the four quantities of every month, the status of every month and
\* the recalculated current quantity unchanged.
C17_TransferInformational ==
    out.computed =>
        \A month \in {in_month, in_next} :
            LET given == Computed(in_ms, month)
            IN  /\ month = in_month =>
                      given.balance = out.balance /\ given.status = out.status
                /\ \A i \in 1..Len(in_ms) :
                      in_ms[i].type = "transfer" =>
                          \A ms \in WithoutTransfer(i) :
                              Computed(ms, month) = given

\* a transfer dated in the queried month beside a receipt of that month
C17_Witness ==
    /\ out.computed
    /\ \E i \in IdxIn(in_ms, in_month) : in_ms[i].type = "transfer"
    /\ \E i \in IdxIn(in_ms, in_month) : in_ms[i].type = "incoming"
    /\ out.balance.issuedQty = 0
    /\ out.balance.endingQty > 0
    /\ out.status = "in stock"

----------------------------------------------------------------------------
(* Claims about the target month of a request, checked under SpecMonth *)

\* the month the request of the step names
RequestedMonth == IF pc' = "listed" THEN in_month' ELSE request'.month

\* a month is named and it does not match YYYY-MM
Malformed(month) == month # NoStr /\ ~MonthRegex(month)

\* C19 (as claimed): a target month that does not match the YYYY-MM pattern
\* is rejected with a client error by every operation that accepts a month
\* (the two listings and the write-off): no ledger is computed for it and no
\* movement is recorded.
C19_MalformedMonthRejected ==
    [][Malformed(RequestedMonth) =>
          /\ response'.status = 400
          /\ movements' = movements
          /\ out' = out]_vars

\* the listings taken alone reject a malformed month
C19_ListingsReject ==
    [][(pc' = "listed" /\ Malformed(RequestedMonth)) =>
          /\ response'.status = 400
          /\ movements' = movements
          /\ out' = out]_vars

----------------------------------------------------------------------------
(* Two items and their movements. A client records and edits items and     *)
(* movements; it may list the movements of one item, delete that item, and *)
(* then ask again for the movements it saw.                                *)

\* the ids POST /api/spare-parts and POST /api/mo give: sp-<ms>, mo-<ms>
AllItemIds == {"sp-1", "mo-1"}

\* new Date(year, month - 1, day).getTime(), up to a monotone rescaling
DayNumber(dateStr) ==
    LET p == Split(dateStr, DOT)
    IN  (StrToNum(p[3]) * 12 + (StrToNum(p[2]) - 1)) * 31 + StrToNum(p[1])

\* Array.prototype.sort with (a, b) => dateB - dateA: stable, newest first
RECURSIVE sortMovementsByDate(_)
sortMovementsByDate(ms) ==
    IF Len(ms) = 0 THEN <<>>
    ELSE LET k == CHOOSE i \in 1..Len(ms) :
                     \A j \in 1..Len(ms) :
                        \/ DayNumber(ms[j].date) < DayNumber(ms[i].date)
                        \/ DayNumber(ms[j].date) = DayNumber(ms[i].date) /\ i <= j
         IN  <<ms[k]>> \o sortMovementsByDate(RemoveAt(ms, k))

\* GET /api/spare-parts/:itemId/movements and GET /api/mo/:itemId/movements
ListMovements(itemId) ==
    /\ IF ~ItemExists(itemId)
       THEN /\ response' = Resp(404, "Item not found", Absent)
            /\ UNCHANGED <<pc, in_item, out>>
       ELSE /\ response' = Resp(200, NULL, Absent)
            /\ pc' = "listed"
            /\ in_item' = [id |-> itemId]
            /\ out' = [computed |-> TRUE,
                       rows |-> sortMovementsByDate(
                                   MovementsOf(movements, itemId))]
    /\ UNCHANGED <<today, items, movements, request, in_kind, in_month, outNext>>

ItemsInit ==
    /\ today = [y |-> 2026, m |-> 1, d |-> 15]
    /\ items = [i \in AllItemIds |-> NoItem]
    /\ movements = <<>>
    /\ request = NoRequest
    /\ response = Resp(0, NULL, Absent)
    /\ LedgerIdle

\* the fields the PUT requests of this client set
ItemUpdates ==
    {<<Absent, Absent, <<2>>>>, <<<<ClientDate(2026, 2, 1)>>, Absent, Absent>>}

\* requests of a client that has listed nothing yet
Recording ==
    /\ pc = "idle"
    /\ \/ \E found \in BOOLEAN, q \in {0, 1} : CreateItem(found, q)
       \/ \E id \in AllItemIds, t \in {"incoming", "outgoing"} :
              CreateMovement(id, ClientDate(2025, 12, 31), t, 1)
       \/ \E id \in AllItemIds, k \in 1..MaxLen, u \in ItemUpdates :
              UpdateMovement(id, k, u[1], u[2], u[3])
       \/ \E id \in AllItemIds, k \in 1..MaxLen : DeleteMovement(id, k)
       \/ \E id \in AllItemIds : UpdateItem(id, <<2>>)
       \/ \E id \in AllItemIds : DeleteItem(id)
       \/ \E id \in AllItemIds : ListMovements(id)

\* the client deletes the item whose movements it has listed
DeleteListed ==
    /\ pc = "listed"
    /\ ItemExists(in_item.id)
    /\ DeleteItem(in_item.id)

\* and asks for the listed movements again
Revisit ==
    /\ pc = "listed"
    /\ ~ItemExists(in_item.id)
    /\ \/ ListMovements(in_item.id)
       \/ \E k \in 1..MaxLen, u \in ItemUpdates :
              UpdateMovement(in_item.id, k, u[1], u[2], u[3])
       \/ \E k \in 1..MaxLen : DeleteMovement(in_item.id, k)

ItemsNext == Recording \/ DeleteListed \/ Revisit

SpecItems == ItemsInit /\ [][ItemsNext]_vars

----------------------------------------------------------------------------
(* Claims about the deletion of items, checked under SpecItems *)

\* every stored movement belongs to an item that exists
NoOrphans(its, mvs) ==
    \A k \in 1..Len(mvs) :
        /\ mvs[k].item_id \in DOMAIN its
        /\ its[mvs[k].item_id].exists

\* the step serves a request for the movements of item `id`
MovementRequest(id) ==
    \/ ListMovements(id)
    \/ \E k \in 1..MaxLen, u \in ItemUpdates :
           UpdateMovement(id, k, u[1], u[2], u[3])
    \/ \E k \in 1..MaxLen : DeleteMovement(id, k)

\* C20: deleting an item deletes all of its movements: after any sequence
\* of item and movement operations every stored movement belongs to an item
\* that still exists, a deleted item leaves no movement behind, and a request
\* to list, update or delete the movements of an item that does not exist is
\* answered 404 and changes nothing
C20_DeleteCascades ==
    [][/\ NoOrphans(items', movements')
       /\ \A id \in AllItemIds :
             /\ (ItemExists(id) /\ ~items'[id].exists)
                   => /\ MovementsOf(movements', id) = <<>>
                      /\ \A other \in AllItemIds \ {id} :
                            MovementsOf(movements', other)
                               = MovementsOf(movements, other)
             /\ (~ItemExists(id) /\ MovementRequest(id))
                   => /\ response'.status = 404
                      /\ <<items', movements', out'>> = <<items, movements, out>>
      ]_vars

\* the client listed the movements of an item, deleted the item and was told
\* so, and the other item still has its movement
C20_Witness ==
    /\ pc = "listed"
    /\ out.rows # <<>>
    /\ ~ItemExists(in_item.id)
    /\ response.error = "Item deleted"
    /\ movements # <<>>

----------------------------------------------------------------------------
(* Claims about the continuity of the ledger, checked under SpecLedger *)

\* a clamp fired in `month`: its signed opening or ending sum is negative
ClampFired(month) ==
    SignedBefore(in_ms, month) < 0 \/ SignedThrough(in_ms, month) < 0

----------------------------------------------------------------------------
(* Claims about the stock a write-off leaves, checked under SpecWriteOff *)

\* the unclamped running balance of `ms` is non-negative at the end of every
\* month (the months in which the balance can change are those of StoreMonths)
NeverOverdrawn(ms) == \A m \in StoreMonths : SignedThrough(ms, m) >= 0

\* C22: an admitted write-off, for any target month, applied to an item whose
\* running balance was non-negative at the end of every month leaves the
\* running balance non-negative at the end of every month.
C22_AdmissionPreventsOverdraw ==
    [][(Served /\ response'.status = 200 /\ NeverOverdrawn(MovementsBefore))
          => NeverOverdrawn(MovementsAfter)]_vars

----------------------------------------------------------------------------
(* Two write-off requests for one item and one month in flight at once.    *)
(* The handler is a synchronous function: between its SELECT of the        *)
(* movements and its INSERT the event loop runs no other handler.          *)
(*   in_item[h]  the request handler h serves                              *)
(*   pc[h]       "arrived", "checked" (admitted, INSERT not yet run), "done" *)
(*   out[h]      the response of handler h                                 *)

Handlers == {1, 2}

RaceDates == {ClientDate(2025, 12, 31), ClientDate(2026, 1, 15)}
RaceMonths == {MonthValue(2025, 12), MonthValue(2026, 1)}

RaceMovements ==
    [item_id : ItemIds, date : RaceDates, type : WriteOffTypes,
     quantity : 1..MaxQty, notes : {OTHER_NOTE}]

RaceInit ==
    /\ today = [y |-> 2026, m |-> 1, d |-> 15]
    /\ movements \in SeqsUpTo(RaceMovements, MaxLen - 1)
    /\ items = recalculateItemQuantity(
                  [i \in ItemIds |-> [exists |-> TRUE, quantity |-> 0]],
                  movements, "sp-1")
    /\ request = NoRequest
    /\ response = Resp(0, NULL, Absent)
    /\ in_kind = "spare_parts"
    /\ \E m \in RaceMonths, q \in [Handlers -> 1..MaxQty] :
          /\ in_month = m
          /\ in_item = [h \in Handlers |->
                          [id |-> "sp-1", quantity |-> q[h], month |-> m]]
    /\ pc = [h \in Handlers |-> "arrived"]
    /\ out = [h \in Handlers |-> Resp(0, NULL, Absent)]
    /\ outNext = NoLedger

\* a handler that yields the thread between its check and its INSERT
Runnable_Interleaved(h) == h \in Handlers

\* the event loop starts handler h only when no other handler is running
Runnable(h) == \A o \in Handlers \ {h} : pc[o] # "checked"

\* write-off, lines 667-691: validation, SELECT of the movements and the
\* check against the available quantity
CheckAvailable(h) ==
    LET r == in_item[h]
        res == WriteOffResponse(r.id, r.quantity, r.month)
    IN  /\ pc[h] = "arrived"
        /\ Runnable(h)
        /\ out' = [out EXCEPT ![h] = res]
        /\ pc' = [pc EXCEPT ![h] =
                     IF res.status = 200 THEN "checked" ELSE "done"]
        /\ UNCHANGED <<storeVars, in_kind, in_item, in_month, outNext>>

\* write-off, lines 693-728: the INSERT of the generated movement
InsertMovement(h) ==
    LET r == in_item[h]
    IN  /\ pc[h] = "checked"
        /\ movements' = Append(movements,
                               WriteOffMovement(r.id, r.quantity, r.month))
        /\ pc' = [pc EXCEPT ![h] = "done"]
        /\ UNCHANGED <<today, items, request, response, in_kind, in_item,
                       in_month, out, outNext>>

RaceNext == \E h \in Handlers : CheckAvailable(h) \/ InsertMovement(h)

SpecRace == RaceInit /\ [][RaceNext]_vars

----------------------------------------------------------------------------
(* Claims about concurrent write-offs, checked under SpecRace *)

Admitted == {h \in Handlers : pc[h] = "done" /\ out[h].status = 200}

\* the movements of the item before either request was served
MovementsAtArrival ==
    SubSeq(movements, 1, Len(movements) - Cardinality(Admitted))

\* the available quantity of the month before either request was served
AvailableAtArrival ==
    LET balance == calculateMonthlyBalance(MovementsAtArrival, in_month)
    IN  balance.openingQty + balance.incomingQty - balance.issuedQty

----------------------------------------------------------------------------
(* Claims about the manual correction of a quantity, checked under Spec *)

\* recalculateItemQuantity's value for item `id` on table movements `mvs`
Recalculated(mvs, id) == Max(0, RecalcLoop(MovementsOf(mvs, id), 1, 0))

\* C24: after an item update that sets the quantity to a non-negative newQty
\* different from the stored quantity, the ledger is adjusted so that the
\* item's quantity recalculated from its movements equals newQty.
C24_CorrectionReachesNewQty ==
    [][\A id \in ItemIds, newQty \in QtyInputs :
          (/\ ItemExists(id)
           /\ newQty # items[id].quantity
           /\ UpdateItem(id, <<newQty>>))
             => /\ Recalculated(movements', id) = newQty
                /\ items'[id].quantity = newQty]_vars

----------------------------------------------------------------------------
(* Claims about the rows of the ledger, checked under SpecStatus *)

RowsSettled(l, month) ==
    l.computed =>
        \A r \in 1..Len(l.rows) :
            (WrittenOffIn(month) /\ l.rows[r].status = "written off")
                => l.rows[r].endingQty = 0

\* C25: writtenOffDate never contradicts the movement-derived quantity: in
\* every ledger row for a month M in which the item's writtenOffDate falls
\* (status 'written off') the endingQty(M) computed from the movements is 0.
C25_WrittenOffRowIsEmpty ==
    RowsSettled(out, in_month) /\ RowsSettled(outNext, in_next)

----------------------------------------------------------------------------
(* Claims about the movements of later months, checked under SpecLedger *)

\* the rows of in_ms dated in a month after `month`
IdxAfter(month) ==
    {i \in 1..Len(in_ms) : MonthNumOfDate(in_ms[i].date) > MonthNumOf(month)}

\* the dates a client can give a movement of a month after `month`
DatesAfter(month) ==
    {d \in LedgerDates : MonthNumOfDate(d) > MonthNumOf(month)}

\* the lists in_ms becomes when the movement of row i, dated after `month`,
\* is deleted, or updated in one field with its date kept after `month`;
\* in_ms is what each of them becomes when that movement is inserted or
\* updated back, and an update of several fields is a chain of these
ChangedAfter(i, month) ==
    {RemoveAt(in_ms, i)}
    \cup {[in_ms EXCEPT ![i].date = d] : d \in DatesAfter(month)}
    \cup {[in_ms EXCEPT ![i].type = t] : t \in MovementTypes}
    \cup {[in_ms EXCEPT ![i].quantity = q] : q \in LedgerQuantities}

LaterMovementsUnseen(l, month) ==
    \A i \in IdxAfter(month) :
        \A ms \in ChangedAfter(i, month) :
            LET changed == [in_item EXCEPT !.movements = ms]
            IN  /\ calculateMonthlyBalance(ms, month) = l.balance
                /\ shouldItemBeVisible(changed, month) = l.visible
                /\ getItemStatusForMonth(changed, month) = l.status

\* C26: movements dated after a month M are invisible to M's ledger:
\* inserting, updating or deleting a movement whose date lies in a month
\* later than M (before and after the change) leaves the MonthlyBalance, the
\* visibility decision and the status computed for M unchanged.
C26_LaterMovementsUnseen ==
    pc = "queried" => LaterMovementsUnseen(out, in_month)

\* an item depleted in M and restocked in a later month: M's row shows no
\* stock, the current stock is positive
C26_Witness ==
    /\ pc = "queried"
    /\ \E i \in IdxAfter(in_month) : in_ms[i].type = "incoming"
    /\ calculateCurrentStock(in_ms) > 0
    /\ out.visible
    /\ out.balance.endingQty = 0
    /\ out.status = "written off"

RowsAgree(l, month) ==
    l.computed =>
        \A r \in 1..Len(l.rows) :
            ~WrittenOffIn(month) =>
                (l.rows[r].status = "in stock" <=> l.rows[r].endingQty > 0)

\* C27: in every row returned by filterCategoriesByMonth for an item whose
\* writtenOffDate is not in the target month, the status is 'in stock' if and
\* only if endingQty > 0, also when the opening or ending sum was clamped.
C27_StatusAgreesWithEnding ==
    RowsAgree(out, in_month) /\ RowsAgree(outNext, in_next)

\* a row whose opening sum was clamped, in stock with a positive ending
\* quantity, and the row of the month after it
C27_Witness ==
    /\ pc = "done"
    /\ ~WrittenOffIn(in_month) /\ ~WrittenOffIn(in_next)
    /\ SignedBefore(in_ms, in_month) < 0
    /\ Len(out.rows) = 1 /\ Len(outNext.rows) = 1
    /\ out.rows[1].status = "in stock" /\ out.rows[1].endingQty > 0

----------------------------------------------------------------------------
(* Claims about the effect of an accepted write-off, checked under         *)
(* SpecWriteOff                                                            *)

\* the months of StoreMonths before the month of the request
MonthsBeforeRequest ==
    {m \in StoreMonths : MonthNumOf(m) < MonthNumOf(WriteOffMonth)}

\* the request added one outgoing movement of its quantity q to the item and
\* touched nothing else: issuedQty(M) grew by q, openingQty(M), incomingQty(M)
\* and the balances of the months before M are what they were
OneIssueAdded ==
    /\ Len(movements') = Len(movements) + 1
    /\ LET generated == movements'[Len(movements')]
           before == calculateMonthlyBalance(MovementsBefore, WriteOffMonth)
           after == calculateMonthlyBalance(MovementsAfter, WriteOffMonth)
       IN  /\ movements' = Append(movements, generated)
           /\ generated.item_id = request'.id
           /\ generated.type = "outgoing"
           /\ generated.quantity = request'.quantity
           /\ after.issuedQty = before.issuedQty + request'.quantity
           /\ after.openingQty = before.openingQty
           /\ after.incomingQty = before.incomingQty
    /\ \A m \in MonthsBeforeRequest :
          calculateMonthlyBalance(MovementsAfter, m)
             = calculateMonthlyBalance(MovementsBefore, m)

\* C28: an accepted write-off of quantity q for month M adds exactly one
\* movement of type 'outgoing' with quantity exactly q: issuedQty(M) grows by
\* q, openingQty(M) and incomingQty(M) are unchanged, the balances of all
\* months before M are unchanged, and no other movement is modified.
C28_AcceptedAddsOneIssue ==
    [][(Served /\ response'.status = 200) => OneIssueAdded]_vars

\* C28 restricted to the months whose year has four significant digits, and
\* to the current month of a request that names none
C28_FromYear1000 ==
    [][(/\ Served
        /\ response'.status = 200
        /\ request'.month = NoStr \/ PlainYear(request'.month))
          => OneIssueAdded]_vars

----------------------------------------------------------------------------
(* The write-off dialog of the client: it is opened from a row of the      *)
(* ledger of the selected month and submits to the write-off route         *)

\* maxQuantity taken from the item's current quantity
maxQuantity_Current(row) == row.quantity

\* CategoryTable: maxQuantity = Number(row.endingQty ?? row.quantity) || 0;
\* endingQty is a number in every row the server sends
maxQuantity(row) == row.endingQty

\* WriteOffDialog.handleSubmit: the quantities it submits
DialogAdmits(qty, max) == ~(qty <= 0) /\ ~(qty > max)

\* the rows of the item of the request in the ledger of the month of the
\* request, as the table holds them: the item's fields and its balance
DialogRows ==
    LET rows == filterCategoriesByMonth(
                    <<LoadItem(NoStr, MovementsBefore)>>, WriteOffMonth)
    IN  [r \in 1..Len(rows) |->
            [quantity |-> items[request'.id].quantity,
             endingQty |-> rows[r].endingQty]]

\* C29: client and server write-off limits agree in the safe direction: any
\* quantity the write-off dialog admits for a row of month M (an integer q
\* with 1 <= q <= endingQty(M)) is admitted by the server's check against
\* openingQty(M) + incomingQty(M) - issuedQty(M) on the same movements.
C29_DialogWithinServerLimit ==
    [][(Served /\ response'.status # 200) =>
          LET rows == DialogRows
          IN  \A r \in 1..Len(rows) :
                  ~DialogAdmits(request'.quantity, maxQuantity(rows[r]))]_vars

\* the largest quantity the dialog admits was written off from a row whose
\* opening sum was clamped: the server would have admitted more
C29_Witness ==
    /\ request # NoRequest
    /\ request.month # NoStr
    /\ response.status = 200
    /\ Len(movements) > 0
    /\ LET before == SubSeq(movements, 1, Len(movements) - 1)
           balance == calculateMonthlyBalance(before, request.month)
       IN  /\ SignedBefore(before, request.month) < 0
           /\ request.quantity = balance.endingQty
           /\ balance.endingQty
                < balance.openingQty + balance.incomingQty - balance.issuedQty

----------------------------------------------------------------------------
(* A client that adds an item through the add-item dialog, records         *)
(* movements for it and then opens the ledger of a month                   *)

\* parseInt(s, 10) for a string of decimal digits with an optional sign:
\* <<n>>, or Absent for NaN
ParseInt(s) ==
    IF Len(s) = 0 THEN Absent
    ELSE IF s[1] = DASH
         THEN (IF Len(s) = 1 THEN Absent ELSE <<0 - StrToNum(Tail(s))>>)
         ELSE <<StrToNum(s)>>

\* the quantity field of the dialog: empty, 0, 1, -1
DialogQuantities ==
    {NoStr, NumToStr(0), NumToStr(1), <<DASH>> \o NumToStr(1)}

\* AddItemDialog.handleSubmit, then POST /api/spare-parts; the other required
\* fields are filled in
SubmitAddItem(quantity) ==
    LET qty == ParseInt(quantity)
    IN  IF quantity = NoStr \/ qty = Absent
        THEN UNCHANGED vars
        ELSE IF qty[1] < 0
             THEN UNCHANGED vars
             ELSE \E found \in BOOLEAN : CreateItem(found, qty[1])

AddDates ==
    {ClientDate(2025, 12, 31), ClientDate(2026, 1, 15), ClientDate(2026, 2, 1)}
AddMonths == {MonthValue(2025, 12), MonthValue(2026, 1), NoStr}

AddNext ==
    /\ pc = "idle"
    /\ \/ \E quantity \in DialogQuantities : SubmitAddItem(quantity)
       \/ \E id \in ItemIds, d \in AddDates, t \in WriteOffTypes :
              CreateMovement(id, d, t, 1)
       \/ \E kind \in ItemKinds, m \in AddMonths : GetList(kind, m)

SpecAdd == Init /\ [][AddNext]_vars

----------------------------------------------------------------------------
(* Claims about the visibility of items without movements, checked under   *)
(* SpecAdd                                                                 *)

\* the month of the listing served last
ListedMonth == IF in_month = NoStr THEN getCurrentMonth ELSE in_month

\* item `id` has no movement dated in `month` or earlier
NothingThrough(id, month) ==
    LET ms == MovementsOf(movements, id)
    IN  \A i \in 1..Len(ms) : MonthNumOfDate(ms[i].date) > MonthNumOf(month)

\* C30: an item with no movements is not visible in any month: an item
\* created with quantity 0 has no initial movement and appears in no month's
\* ledger until a movement is added to it, and an item whose movements are
\* all dated after M is not visible in M.
C30_NoMovementsNotVisible ==
    (pc = "listed" /\ response.status = 200) =>
        \A id \in ItemIds :
            (ItemExists(id) /\ KindOf(id) = in_kind
                /\ NothingThrough(id, ListedMonth))
                => out.rows = <<>>

\* the ledger of the current month after an item was added with quantity 0
C30_Witness ==
    /\ pc = "listed"
    /\ response.status = 200
    /\ in_kind = "spare_parts"
    /\ ListedMonth = getCurrentMonth
    /\ ItemExists("sp-1")
    /\ items["sp-1"].quantity = 0
    /\ movements = <<>>
    /\ out.rows = <<>>

====
